---- MODULE Spec2Model ----
(***************************************************************************)
(* DNS manager (AndersPier/dns-manager): the reconciliation engine of      *)
(* src/frontend/src/App.js (server part, lines 305-797).                   *)
(*                                                                         *)
(* Strings are sequences of symbols.  A symbol is a run of characters that *)
(* the regular expressions and split('.') of the code treat as a unit:     *)
(* the five characters Host( , one delimiter character, or a run of        *)
(* letters.  The backtick cannot be written in a TLA+ string and is        *)
(* rendered "<bt>".                                                        *)
(***************************************************************************)
EXTENDS Integers, Sequences, FiniteSets, TLC

BT == "<bt>"
DQ == "\""
SQ == "'"
DOT == "."
HOST == "Host("
RP == ")"

\* ------------------------------------------------------------------------
\* Bounds
\* ------------------------------------------------------------------------
NumContainers == 2
MaxTimers == 2
MaxRecords == 2
DeleteDelay == 1

Containers == 1..NumContainers
\* the executions of monitorContainers that may be in progress together: the
\* scheduled one (initial sync, setInterval) and the one of POST /api/sync
TickIds == {"sched", "sync"}
TimerIds == 1..MaxTimers
RecordIds == 1..MaxRecords
None == 0

\* ------------------------------------------------------------------------
\* String helpers (JavaScript String / Array methods used by the code)
\* ------------------------------------------------------------------------
RECURSIVE Str(_)
\* the JavaScript string a symbol sequence stands for
Str(s) == IF s = <<>> THEN "" ELSE Head(s) \o Str(Tail(s))

\* String.prototype.includes
Includes(s, sub) ==
  \E i \in 1..(Len(s) - Len(sub) + 1) : SubSeq(s, i, i + Len(sub) - 1) = sub

\* index of the first occurrence of symbol ch in s at or after position from, 0 if none
IndexFrom(s, ch, from) ==
  LET idx == {i \in from..Len(s) : s[i] = ch}
  IN IF idx = {} THEN 0 ELSE CHOOSE i \in idx : \A j \in idx : i <= j

RECURSIVE SplitAt(_, _, _)
SplitAt(s, ch, acc) ==
  IF s = <<>> THEN <<acc>>
  ELSE IF Head(s) = ch THEN <<acc>> \o SplitAt(Tail(s), ch, <<>>)
  ELSE SplitAt(Tail(s), ch, Append(acc, Head(s)))

\* String.prototype.split(ch)
Split(s, ch) == SplitAt(s, ch, <<>>)

RECURSIVE Join(_, _)
\* Array.prototype.join(ch)
Join(parts, ch) ==
  IF parts = <<>> THEN <<>>
  ELSE IF Len(parts) = 1 THEN parts[1]
  ELSE parts[1] \o <<ch>> \o Join(Tail(parts), ch)

RECURSIVE Strip(_, _)
\* String.prototype.replace(/[chars]/g, '')
Strip(s, chars) ==
  IF s = <<>> THEN <<>>
  ELSE IF Head(s) \in chars THEN Strip(Tail(s), chars)
  ELSE <<Head(s)>> \o Strip(Tail(s), chars)

RECURSIVE Dedup(_, _)
\* [...new Set(hosts)]: first occurrences, in order
Dedup(s, seen) ==
  IF s = <<>> THEN <<>>
  ELSE IF Head(s) \in seen THEN Dedup(Tail(s), seen)
  ELSE <<Head(s)>> \o Dedup(Tail(s), seen \cup {Head(s)})

\* ------------------------------------------------------------------------
\* Label Parser: extractTraefikHosts
\* ------------------------------------------------------------------------
RECURSIVE BacktickHosts(_, _)
\* value.match(/Host\(`([^`]+)`\)/g), each match mapped to its capture group
BacktickHosts(v, i) ==
  IF i + 3 > Len(v) THEN <<>>
  ELSE IF v[i] = HOST /\ v[i + 1] = BT
    THEN LET j == IndexFrom(v, BT, i + 2)
         IN IF j > i + 2 /\ j + 1 <= Len(v) /\ v[j + 1] = RP
            THEN <<SubSeq(v, i + 2, j - 1)>> \o BacktickHosts(v, j + 2)
            ELSE BacktickHosts(v, i + 1)
    ELSE BacktickHosts(v, i + 1)

\* the capture is pushed as it is
StripQuotesKept(s) == s

\* .replace(/['"]/g, '')
StripQuotes(s) == Strip(s, {SQ, DQ})

RECURSIVE ParenHosts(_, _)
\* value.match(/Host\(([^)]+)\)/g), each capture with ' and " removed
ParenHosts(v, i) ==
  IF i + 2 > Len(v) THEN <<>>
  ELSE IF v[i] = HOST
    THEN LET j == IndexFrom(v, RP, i + 1)
         IN IF j > i + 1
            THEN <<StripQuotes(SubSeq(v, i + 1, j - 1))>> \o ParenHosts(v, j + 1)
            ELSE ParenHosts(v, i + 1)
    ELSE ParenHosts(v, i + 1)

RoutersPrefix == <<"traefik", DOT, "http", DOT, "routers">>
RuleSuffix == <<DOT, "rule">>
EnableKey == <<"traefik", DOT, "enable">>

IsRuleKey(key) == Includes(key, RoutersPrefix) /\ Includes(key, RuleSuffix)

RECURSIVE AllHosts(_)
\* the hosts array before de-duplication; labels is the Object.entries sequence
AllHosts(labels) ==
  IF labels = <<>> THEN <<>>
  ELSE LET key == Head(labels)[1]
           value == Head(labels)[2]
       IN (IF IsRuleKey(key)
           THEN BacktickHosts(value, 1) \o ParenHosts(value, 1)
           ELSE <<>>) \o AllHosts(Tail(labels))

extractTraefikHosts(labels) == Dedup(AllHosts(labels), {})

\* labels['traefik.enable'] === 'true'
TraefikEnabled(labels) ==
  \E i \in 1..Len(labels) : labels[i][1] = EnableKey /\ labels[i][2] = <<"true">>

\* ------------------------------------------------------------------------
\* Hostname splitting (createDNSRecordsForContainer, the for-of body)
\* ------------------------------------------------------------------------
Parts(host) == Split(host, DOT)

\* parts.slice(0, -2).join('.')
Subdomain(host) ==
  LET p == Parts(host)
  IN IF Len(p) <= 2 THEN <<>> ELSE Join(SubSeq(p, 1, Len(p) - 2), DOT)

\* parts.slice(-2).join('.')
Domain(host) ==
  LET p == Parts(host)
  IN IF Len(p) <= 2 THEN Join(p, DOT) ELSE Join(SubSeq(p, Len(p) - 1, Len(p)), DOT)

\* no `continue` branch: every host is split and created
ValidHostAny(host) == TRUE

\* neither of the two `continue` branches is taken
ValidHost(host) == Len(Parts(host)) >= 2 /\ Str(Subdomain(host)) # ""

\* ------------------------------------------------------------------------
\* Environment: the containers and their labels
\* ------------------------------------------------------------------------
RuleKey(name) == RoutersPrefix \o <<DOT, name>> \o RuleSuffix

AppHost == <<"app", DOT, "example", DOT, "com">>
ApexHost == <<"example", DOT, "com">>

\* the README example: traefik.enable=true and Host(`app.example.com`)
ExampleLabels ==
  << <<EnableKey, <<"true">> >>,
     <<RuleKey("app"), <<HOST, BT>> \o AppHost \o <<BT, RP>> >> >>

WwwHost == <<"www", DOT, "example", DOT, "com">>

\* bare form, three clauses, the first one a two-label hostname
BareLabels ==
  << <<EnableKey, <<"true">> >>,
     <<RuleKey("web"),
       <<HOST>> \o ApexHost \o <<RP, " || ", HOST>> \o AppHost
         \o <<RP, " || ", HOST>> \o WwwHost \o <<RP>> >> >>

\* a router rule but traefik.enable is not "true"
DisabledLabels ==
  << <<EnableKey, <<"false">> >>,
     <<RuleKey("app"), <<HOST, DQ>> \o AppHost \o <<DQ, RP>> >> >>

LabelSets == <<ExampleLabels, BareLabels, DisabledLabels>>

\* container.inspect().Config.Labels: the labels of a container never change
LabelsOf(c) == LabelSets[((c - 1) % Len(LabelSets)) + 1]

TargetDomains == {"", "srv.example.net"}

\* ------------------------------------------------------------------------
\* State
\* ------------------------------------------------------------------------
VARIABLES
  server,                \* position of startServer: boot, exited, initialSync, polling
  config,                \* the config object: accountName and apiKey (whether set), targetDomain
  fleet,                 \* docker: the containers that exist
  running,               \* docker: container id -> State === 'running'
  registrar,             \* the records that exist at the registrar
  managedRecords,        \* the Map managedRecords, in insertion order
  deletePendingRecords,  \* the Map deletePendingRecords: container id -> timer id, None if absent
  timers,                \* the setTimeout timers and their callbacks
  ticks,                 \* the executions of monitorContainers
  observe,               \* which history the specification records: none, creates, cancel, idem, sync, retry
  created,               \* history: container id -> hostnames created since it last started
  cancelled,             \* history: container id -> none, cancelled (by a tick), rearmed
  last,                  \* history: listing and record owners of the last undisturbed tick
  response,              \* history: the last response of POST /api/sync
  failed,                \* history: container id -> no, failed (a deleteRecord call), rearmed, dropped
  parser                 \* the Label Parser applied to a label map on its own

vars == <<server, config, fleet, running, registrar, managedRecords,
          deletePendingRecords, timers, ticks, observe, created, cancelled, last,
          response, failed, parser>>

NoCall == [domain |-> "", name |-> "", target |-> "", ttl |-> 0, host |-> <<>>]

IdleTick == [pc |-> "idle", snap |-> <<>>, idx |-> 0,
             runningIds |-> {}, hosts |-> <<>>, call |-> NoCall,
             sawPending |-> FALSE, solo |-> FALSE, second |-> FALSE, owners |-> {},
             skipped |-> {}]

NoLast == [snap |-> <<>>, owners |-> {}]

FreeTimer == [st |-> "free", cid |-> None, remaining |-> 0, todo |-> <<>>]

\* no request to POST /api/sync has been answered
NoResponse == [status |-> 0, listFailed |-> FALSE]

\* the Label Parser is not under test
NoParse == [stage |-> "off", enable |-> "", clauses |-> <<>>, labels |-> <<>>,
            hosts |-> <<>>, used |-> <<>>]

\* the state when startServer is called: observe selects the history, fleets
\* and targets the docker hosts and target domains the behaviours start from
InitOf(o, fleets, targets) ==
  /\ observe = o
  /\ server = "boot"
  /\ config \in [accountName : BOOLEAN, apiKey : BOOLEAN, targetDomain : targets]
  /\ fleet \in fleets
  /\ running = [c \in Containers |-> FALSE]
  /\ registrar = {}
  /\ managedRecords = <<>>
  /\ deletePendingRecords = [c \in Containers |-> None]
  /\ timers = [t \in TimerIds |-> FreeTimer]
  /\ ticks = [p \in TickIds |-> IdleTick]
  /\ created = [c \in Containers |-> {}]
  /\ cancelled = [c \in Containers |-> "none"]
  /\ last = NoLast
  /\ response = NoResponse
  /\ failed = [c \in Containers |-> "no"]
  /\ parser = NoParse

\* a docker host with one container
InitWith(o) == InitOf(o, {{c} : c \in Containers}, TargetDomains)

Init == InitWith("none")

\* ------------------------------------------------------------------------
\* Map and timer primitives
\* ------------------------------------------------------------------------
\* one key per hostname, whatever the container
RecordKeyShared(cid, host) == <<1, Str(host)>>

\* line 494: `${containerId}-${host}`
RecordKey(cid, host) == <<cid, Str(host)>>

\* Array.from(managedRecords.keys()).some(key => key.startsWith(containerId))
HasRecords(mr, cid) == \E i \in 1..Len(mr) : mr[i].key[1] = cid

KeyIndex(mr, key) ==
  LET idx == {i \in 1..Len(mr) : mr[i].key = key}
  IN IF idx = {} THEN 0 ELSE CHOOSE i \in idx : TRUE

\* managedRecords.set(key, rec): an existing key keeps its position
MapSet(mr, rec) ==
  LET i == KeyIndex(mr, rec.key)
  IN IF i = 0 THEN Append(mr, rec) ELSE [mr EXCEPT ![i] = rec]

\* managedRecords.delete(key)
MapDelete(mr, key) ==
  LET i == KeyIndex(mr, key)
  IN IF i = 0 THEN mr ELSE SubSeq(mr, 1, i - 1) \o SubSeq(mr, i + 1, Len(mr))

\* every entry of managedRecords, whoever owns it
RecordsOfAny(mr, cid) == mr

\* the entries of managedRecords owned by cid, in Map order
RECURSIVE RecordsOf(_, _)
RecordsOf(mr, cid) ==
  IF mr = <<>> THEN <<>>
  ELSE IF Head(mr).containerId = cid THEN <<Head(mr)>> \o RecordsOf(Tail(mr), cid)
  ELSE RecordsOf(Tail(mr), cid)

\* clearTimeout(t): a timer that already fired is not affected
ClearTimeout(tm, t) ==
  IF t # None /\ tm[t].st = "armed" THEN [tm EXCEPT ![t] = FreeTimer] ELSE tm

FreeTimerIds(tm, dp) ==
  {t \in TimerIds : tm[t].st = "free" /\ \A c \in Containers : dp[c] # t}

Min(S) == CHOOSE x \in S : \A y \in S : x <= y

\* ------------------------------------------------------------------------
\* monitorContainers and what it calls.  A machine state m holds the two
\* Maps (mr, dp), the timers (tm), the tick's own frame (tk) and ok, which is
\* FALSE when the step would need a timer beyond MaxTimers.  Each operator
\* runs the code up to its next await on docker or the registrar.
\* ------------------------------------------------------------------------

\* lines 585-589: cancel any pending deletion for a running container
CancelPending(m, cid) ==
  IF m.dp[cid] # None
  THEN [m EXCEPT !.tm = ClearTimeout(m.tm, m.dp[cid]), !.dp[cid] = None]
  ELSE m

ArmedTimer(cid) == [st |-> "armed", cid |-> cid, remaining |-> DeleteDelay, todo |-> <<>>]

scheduleRecordDeletion(m, cid) ==
  LET tm1 == IF m.dp[cid] # None THEN ClearTimeout(m.tm, m.dp[cid]) ELSE m.tm
      free == FreeTimerIds(tm1, [m.dp EXCEPT ![cid] = None])
  IN IF free = {} THEN [m EXCEPT !.ok = FALSE]
     ELSE [m EXCEPT !.tm = [tm1 EXCEPT ![Min(free)] = ArmedTimer(cid)],
                    !.dp[cid] = Min(free)]

\* no deletion is armed for a container once a deleteRecord call of its
\* callback has failed
NeedsDeletionOnce(m, rec) ==
  /\ rec.containerId \notin m.tk.runningIds /\ m.dp[rec.containerId] = None
  /\ failed[rec.containerId] = "no"

\* lines 594-598: schedule deletion for stopped containers
NeedsDeletion(m, rec) ==
  rec.containerId \notin m.tk.runningIds /\ m.dp[rec.containerId] = None

RECURSIVE ScheduleLoop(_, _)
ScheduleLoop(m, i) ==
  IF i > Len(m.mr) THEN m
  ELSE IF NeedsDeletion(m, m.mr[i])
    THEN ScheduleLoop(scheduleRecordDeletion(m, m.mr[i].containerId), i + 1)
    ELSE ScheduleLoop(m, i + 1)

\* the tick returns
FinishTick(m) == [ScheduleLoop(m, 1) EXCEPT !.tk.pc = "idle"]

\* createDNSRecordsForContainer awaited for every running container
WantsCreateAlways(m, cid) == TRUE

\* lines 577-582: whether createDNSRecordsForContainer is awaited for cid
WantsCreate(m, cid) == ~HasRecords(m.mr, cid)

RECURSIVE ContainerLoop(_, _)
\* lines 571-591, from the i-th container of the listing on
ContainerLoop(m, i) ==
  IF i > NumContainers THEN FinishTick(m)
  ELSE IF ~m.tk.snap[i] THEN ContainerLoop(m, i + 1)
  ELSE LET m1 == [m EXCEPT !.tk.runningIds = @ \cup {i}]
       IN IF WantsCreate(m1, i)
          THEN [m1 EXCEPT !.tk.pc = "inspect", !.tk.idx = i,
                          !.tk.sawPending = (m1.dp[i] # None)]
          ELSE ContainerLoop(CancelPending([m1 EXCEPT !.tk.skipped = @ \cup {i}], i), i + 1)

\* createDNSRecordsForContainer has returned: lines 584-590, then the next container
AfterCreateDNS(m) ==
  LET m1 == [m EXCEPT !.tk.hosts = <<>>, !.tk.call = NoCall,
                      !.tk.sawPending = FALSE]
  IN ContainerLoop(CancelPending(m1, m.tk.idx), m.tk.idx + 1)

\* the hostname itself, whatever config.targetDomain is
TargetHostOnly(host) == Str(host)

\* config.targetDomain || host
Target(host) == IF config.targetDomain # "" THEN config.targetDomain ELSE Str(host)

\* the arguments of simplyAPI.createCNAMERecord, lines 486-491
CreateCall(host) ==
  [domain |-> Str(Domain(host)), name |-> Str(Subdomain(host)),
   target |-> Target(host), ttl |-> 3600, host |-> host]

RECURSIVE HostLoop(_, _)
\* lines 469-512: the for-of loop over hosts, up to the next createCNAMERecord
HostLoop(m, hosts) ==
  IF hosts = <<>> THEN AfterCreateDNS(m)
  ELSE IF ~ValidHost(Head(hosts)) THEN HostLoop(m, Tail(hosts))
  ELSE [m EXCEPT !.tk.pc = "create", !.tk.hosts = Tail(hosts),
                 !.tk.call = CreateCall(Head(hosts))]

\* extractTraefikHosts is called whatever traefik.enable is
HostsForContainerUnguarded(labels) == extractTraefikHosts(labels)

\* lines 457-462: the hosts createDNSRecordsForContainer gets for the labels
HostsForContainer(labels) ==
  IF ~TraefikEnabled(labels) THEN <<>> ELSE extractTraefikHosts(labels)

\* the same for each container, computed once: the labels never change
InspectedHosts == [c \in Containers |-> HostsForContainer(LabelsOf(c))]

\* lines 453-467: after container.inspect() of container cid resolved
AfterInspect(m, cid) == HostLoop(m, InspectedHosts[cid])

\* lines 494-501: managedRecords.set(recordKey, {...})
NewRecord(cid, call, recordId) ==
  [key |-> RecordKey(cid, call.host), recordId |-> recordId, hostname |-> Str(call.host),
   domain |-> call.domain, subdomain |-> call.name, containerId |-> cid]

Machine(p) == [mr |-> managedRecords, dp |-> deletePendingRecords, tm |-> timers,
               tk |-> ticks[p], ok |-> TRUE]

\* commit the machine state reached by a step of tick p
Owners(mr) == {mr[i].containerId : i \in 1..Len(mr)}

\* history: what a step of a tick that leaves the Maps as in m does to cancelled
CancelledAfterTick(m) ==
  [c \in Containers |->
     IF observe # "cancel" THEN cancelled[c]
     ELSE IF deletePendingRecords[c] # None /\ m.dp[c] = None THEN "cancelled"
     ELSE IF deletePendingRecords[c] = None /\ m.dp[c] # None /\ cancelled[c] = "cancelled"
       THEN "rearmed"
     ELSE cancelled[c]]

\* history: a tick that returns undisturbed leaves its listing and the owners
LastAfterTick(m) ==
  IF m.tk.pc = "idle" /\ m.tk.solo THEN [snap |-> m.tk.snap, owners |-> Owners(m.mr)]
  ELSE NoLast

\* lines 600-602: the catch of monitorContainers logs, nothing is thrown on
MonitorRaises(m) == FALSE

\* lines 724-731: await monitorContainers(), then res.json (200), or the
\* catch with res.status(500); history: whether the listing of the tick failed
SyncResponse(m) ==
  [status |-> IF MonitorRaises(m) THEN 500 ELSE 200, listFailed |-> (m.tk.snap = <<>>)]

\* history: what a step of a tick that leaves the Maps as in m does to failed.
\* A tick that returns with a listing in which c is not running, c owning a
\* record whose deletion failed, has armed a new timer for c or has not
FailedAfterTick(m) ==
  [c \in Containers |->
     IF observe # "retry" \/ failed[c] # "failed" THEN failed[c]
     ELSE IF deletePendingRecords[c] = None /\ m.dp[c] # None THEN "rearmed"
     ELSE IF /\ m.tk.pc = "idle" /\ m.tk.snap # <<>> /\ ~m.tk.snap[c]
             /\ c \in Owners(m.mr) /\ m.dp[c] = None
       THEN "dropped"
     ELSE failed[c]]

\* (the machine state is bound once: it is the value of a long chain of steps)
Commit(p, step) ==
  \E m \in {step} :
    /\ m.ok
    /\ managedRecords' = m.mr
    /\ deletePendingRecords' = m.dp
    /\ timers' = m.tm
    /\ ticks' = [q \in TickIds |->
         IF q # p THEN [ticks[q] EXCEPT !.solo = FALSE]
         ELSE IF m.tk.pc = "idle" THEN IdleTick ELSE m.tk]
    /\ cancelled' = CancelledAfterTick(m)
    /\ last' = LastAfterTick(m)
    /\ server' = IF m.tk.pc = "idle" /\ p = "sched" THEN "polling" ELSE server
    /\ response' = IF m.tk.pc = "idle" /\ p = "sync" /\ observe = "sync"
                   THEN SyncResponse(m) ELSE response
    /\ failed' = FailedAfterTick(m)

\* ------------------------------------------------------------------------
\* Actions
\* ------------------------------------------------------------------------
\* not changed by the server
fixed == <<config, fleet, observe, parser>>

\* monitorContainers is called: line 567, docker.listContainers is awaited
BeginTick(p) ==
  /\ ticks[p].pc = "idle"
  /\ ticks' = [ticks EXCEPT ![p] = [IdleTick EXCEPT !.pc = "list"]]

\* the start goes on unless both are missing
MissingCredentialsBoth == ~config.accountName /\ ~config.apiKey

\* line 748: !config.accountName || !config.apiKey
MissingCredentials == ~config.accountName \/ ~config.apiKey

\* startServer, lines 746-751: missing credentials, process.exit(1)
StartServerExit ==
  /\ server = "boot"
  /\ MissingCredentials
  /\ server' = "exited"
  /\ UNCHANGED <<fixed, response, failed, running, registrar, managedRecords, deletePendingRecords,
                 timers, ticks, created, cancelled, last>>

\* startServer, lines 753-768: app.listen, then the initial sync is started
StartServer ==
  /\ server = "boot"
  /\ ~MissingCredentials
  /\ server' = "initialSync"
  /\ BeginTick("sched")
  /\ UNCHANGED <<fixed, response, failed, running, registrar, managedRecords, deletePendingRecords,
                 timers, created, cancelled, last>>

\* lines 770-772: the setInterval callback fires
IntervalTick ==
  /\ server = "polling"
  /\ BeginTick("sched")
  /\ UNCHANGED <<server, fixed, response, failed, running, registrar, managedRecords, deletePendingRecords,
                 timers, created, cancelled, last>>

\* lines 723-726: POST /api/sync arrives
SyncTick ==
  /\ server \in {"initialSync", "polling"}
  /\ BeginTick("sync")
  /\ UNCHANGED <<server, fixed, response, failed, running, registrar, managedRecords, deletePendingRecords,
                 timers, created, cancelled, last>>

\* history: tick p runs alone from its listing on
Alone(p) ==
  observe = "idem" /\ \A q \in TickIds \ {p} : ticks[q].pc \notin {"inspect", "create"}

\* the frame of tick p once docker.listContainers resolved
Listed(p) ==
  [ticks[p] EXCEPT !.snap = running, !.solo = Alone(p),
                   !.second = (Alone(p) /\ last.snap = running),
                   !.owners = IF Alone(p) /\ last.snap = running THEN last.owners ELSE {}]

\* line 567: docker.listContainers resolves
ListReturn(p) ==
  /\ ticks[p].pc = "list"
  /\ Commit(p, ContainerLoop([Machine(p) EXCEPT !.tk = Listed(p)], 1))
  /\ UNCHANGED <<fixed, running, registrar, created>>

\* line 567: docker.listContainers rejects; lines 600-602
ListFail(p) ==
  /\ ticks[p].pc = "list"
  /\ Commit(p, [Machine(p) EXCEPT !.tk.pc = "idle"])
  /\ UNCHANGED <<fixed, running, registrar, created>>

\* line 453: container.inspect resolves
InspectReturn(p) ==
  /\ ticks[p].pc = "inspect"
  /\ Commit(p, AfterInspect(Machine(p), ticks[p].idx))
  /\ UNCHANGED <<fixed, running, registrar, created>>

\* container.inspect rejects and the error reaches the catch of monitorContainers
InspectFailEndsTick(p) ==
  /\ ticks[p].pc = "inspect"
  /\ Commit(p, [Machine(p) EXCEPT !.tk.pc = "idle"])
  /\ UNCHANGED <<fixed, running, registrar, created>>

\* line 453: container.inspect rejects; lines 514-516
InspectFail(p) ==
  /\ ticks[p].pc = "inspect"
  /\ Commit(p, AfterCreateDNS(Machine(p)))
  /\ UNCHANGED <<fixed, running, registrar, created>>

UsedRecordIds ==
  {r.id : r \in registrar}
  \cup {managedRecords[i].recordId : i \in 1..Len(managedRecords)}
  \cup UNION {{timers[t].todo[i].recordId : i \in 1..Len(timers[t].todo)} : t \in TimerIds}

FreshRecordIds == RecordIds \ UsedRecordIds

\* the record the registrar stores for a createCNAMERecord call, lines 353-367
RegistrarRecord(id, call) ==
  [id |-> id, domain |-> call.domain, name |-> call.name, data |-> call.target,
   ttl |-> call.ttl]

\* lines 486-501: createCNAMERecord resolves with the id of the new record
CreateReturn(p) ==
  /\ ticks[p].pc = "create"
  /\ FreshRecordIds # {}
  /\ LET tk == ticks[p]
         id == Min(FreshRecordIds)
         m == [Machine(p) EXCEPT !.mr = MapSet(@, NewRecord(tk.idx, tk.call, id))]
     IN /\ registrar' = registrar \cup {RegistrarRecord(id, tk.call)}
        /\ Commit(p, HostLoop(m, tk.hosts))
        /\ created' = IF observe = "creates" /\ running[tk.idx]
                      THEN [created EXCEPT ![tk.idx] = @ \cup {Str(tk.call.host)}]
                      ELSE created
  /\ UNCHANGED <<fixed, running>>

\* lines 371-374 and 509-511: createCNAMERecord rejects
CreateFail(p) ==
  /\ ticks[p].pc = "create"
  /\ Commit(p, HostLoop(Machine(p), ticks[p].hosts))
  /\ UNCHANGED <<fixed, running, registrar, created>>

\* the callback ends without line 554
EndCallbackKeep(t, dp) == dp

\* line 554: deletePendingRecords.delete(containerId), the callback is over
EndCallback(t, dp) == [dp EXCEPT ![timers[t].cid] = None]

\* lines 536-554: the callback goes on with the records left in todo; history:
\* a step of a deletion callback disturbs the ticks in progress
ContinueCallback(t, todo) ==
  /\ timers' = [timers EXCEPT ![t] =
       IF todo = <<>> THEN FreeTimer ELSE [@ EXCEPT !.st = "running", !.todo = todo]]
  /\ deletePendingRecords' =
       IF todo = <<>> THEN EndCallback(t, deletePendingRecords) ELSE deletePendingRecords
  /\ ticks' = [q \in TickIds |-> [ticks[q] EXCEPT !.solo = FALSE]]
  /\ last' = NoLast

\* lines 525-538: the timer fires, the callback collects recordsToDelete
TimerFire(t) ==
  /\ timers[t].st = "armed"
  /\ timers[t].remaining = 0
  /\ ContinueCallback(t, RecordsOf(managedRecords, timers[t].cid))
  /\ cancelled' = IF cancelled[timers[t].cid] = "rearmed"
                  THEN [cancelled EXCEPT ![timers[t].cid] = "none"] ELSE cancelled
  /\ UNCHANGED <<server, fixed, response, failed, running, registrar, managedRecords, created>>

\* lines 538-544: deleteRecord resolves
DeleteReturn(t) ==
  /\ timers[t].st = "running"
  /\ LET rec == Head(timers[t].todo)
     IN /\ \E r \in registrar : r.id = rec.recordId
        /\ registrar' = {r \in registrar : r.id # rec.recordId}
        /\ managedRecords' = MapDelete(managedRecords, rec.key)
  /\ ContinueCallback(t, Tail(timers[t].todo))
  /\ UNCHANGED <<server, fixed, response, failed, running, created, cancelled>>

\* lines 390-393 and 545-551: deleteRecord rejects
DeleteFail(t) ==
  /\ timers[t].st = "running"
  /\ ContinueCallback(t, Tail(timers[t].todo))
  /\ failed' = IF observe = "retry" /\ ~running[timers[t].cid]
                THEN [failed EXCEPT ![timers[t].cid] = "failed"] ELSE failed
  /\ UNCHANGED <<server, fixed, response, running, registrar, managedRecords, created, cancelled>>

\* one unit of time passes for the armed timers (line 559: the delay of setTimeout)
Tock ==
  /\ \E t \in TimerIds : timers[t].st = "armed" /\ timers[t].remaining > 0
  /\ timers' = [t \in TimerIds |->
       IF timers[t].st = "armed" /\ timers[t].remaining > 0
       THEN [timers[t] EXCEPT !.remaining = @ - 1] ELSE timers[t]]
  /\ UNCHANGED <<server, fixed, response, failed, running, registrar, managedRecords, deletePendingRecords,
                 ticks, created, cancelled, last>>

\* docker: a container starts
StartContainer(c) ==
  /\ c \in fleet
  /\ ~running[c]
  /\ running' = [running EXCEPT ![c] = TRUE]
  /\ failed' = [failed EXCEPT ![c] = "no"]
  /\ UNCHANGED <<server, fixed, response, registrar, managedRecords, deletePendingRecords,
                 timers, ticks, created, cancelled, last>>

\* docker: a container stops; its running period ends
StopContainer(c) ==
  /\ running[c]
  /\ running' = [running EXCEPT ![c] = FALSE]
  /\ created' = [created EXCEPT ![c] = {}]
  /\ UNCHANGED <<server, fixed, response, failed, registrar, managedRecords, deletePendingRecords,
                 timers, ticks, cancelled, last>>

Next ==
  \/ StartServerExit
  \/ StartServer
  \/ IntervalTick
  \/ SyncTick
  \/ \E p \in TickIds : ListReturn(p)
  \/ \E p \in TickIds : ListFail(p)
  \/ \E p \in TickIds : InspectReturn(p)
  \/ \E p \in TickIds : InspectFail(p)
  \/ \E p \in TickIds : CreateReturn(p)
  \/ \E p \in TickIds : CreateFail(p)
  \/ \E t \in TimerIds : TimerFire(t)
  \/ \E t \in TimerIds : DeleteReturn(t)
  \/ \E t \in TimerIds : DeleteFail(t)
  \/ Tock
  \/ \E c \in Containers : StartContainer(c)
  \/ \E c \in Containers : StopContainer(c)

\* no history recorded
Spec == Init /\ [][Next]_vars

\* with the history of the createCNAME calls
SpecCreates == InitWith("creates") /\ [][Next]_vars

\* with the history of the cancellations
SpecCancel == InitWith("cancel") /\ [][Next]_vars

\* with the history of undisturbed ticks
SpecIdem == InitWith("idem") /\ [][Next]_vars

\* with the history of the failed deletions
SpecRetry == InitWith("retry") /\ [][Next]_vars

\* the server when nobody calls POST /api/sync
NextScheduled ==
  \/ StartServerExit
  \/ StartServer
  \/ IntervalTick
  \/ \E p \in TickIds : ListReturn(p)
  \/ \E p \in TickIds : ListFail(p)
  \/ \E p \in TickIds : InspectReturn(p)
  \/ \E p \in TickIds : InspectFail(p)
  \/ \E p \in TickIds : CreateReturn(p)
  \/ \E p \in TickIds : CreateFail(p)
  \/ \E t \in TimerIds : TimerFire(t)
  \/ \E t \in TimerIds : DeleteReturn(t)
  \/ \E t \in TimerIds : DeleteFail(t)
  \/ Tock
  \/ \E c \in Containers : StartContainer(c)
  \/ \E c \in Containers : StopContainer(c)

\* a docker host with all the containers, scheduled ticks only
SpecSiblings == InitOf("none", {Containers}, {""}) /\ [][NextScheduled]_vars

\* with the history of the responses of POST /api/sync
SpecSync == InitWith("sync") /\ [][Next]_vars

\* ------------------------------------------------------------------------
\* Vocabulary of the properties
\* ------------------------------------------------------------------------
\* tick p issues a createCNAME call in this step
CreateIssued(p) ==
  /\ ticks'[p].pc = "create"
  /\ (ticks[p].pc # "create" \/ ticks'[p].call # ticks[p].call)

\* the callback of timer t issues a deleteRecord call in this step
DeleteIssued(t) ==
  /\ timers'[t].st = "running"
  /\ (timers[t].st # "running" \/ timers'[t].todo # timers[t].todo)

InProgress(p) == ticks[p].pc # "idle"

\* tick p has its listing and has not returned
HasListed(p) == ticks[p].pc \in {"inspect", "create"}

ArmedFor(c) == {t \in TimerIds : timers[t].st = "armed" /\ timers[t].cid = c}

ManagedIds == {managedRecords[i].recordId : i \in 1..Len(managedRecords)}

\* C1: createCNAME is never called for a (container, hostname) pair whose
\* create already succeeded since the container last started
C1_NoSecondCreate ==
  [][\A p \in TickIds :
       CreateIssued(p) =>
         ~(running[ticks'[p].idx] /\ Str(ticks'[p].call.host) \in created[ticks'[p].idx])]_vars

\* C2: no tick begins while another tick has listed the containers and has
\* not finished
C2_OneTickAtATime ==
  [][\A p \in TickIds :
       (~InProgress(p) /\ ticks'[p].pc = "list") =>
         \A q \in TickIds \ {p} : ~HasListed(q)]_vars

\* C3: every record that exists at the registrar is held in managedRecords
\* with its registrar id
C3_NoOrphan == \A r \in registrar : r.id \in ManagedIds

\* C5: at most one armed timer per container
C5_OneArmedTimer == \A c \in Containers : Cardinality(ArmedFor(c)) <= 1

\* tick p takes a step past an await
TickStep(p) ==
  /\ ticks[p].pc # "idle"
  /\ \/ ticks'[p].pc # ticks[p].pc
     \/ ticks'[p].idx # ticks[p].idx
     \/ ticks'[p].call # ticks[p].call

\* a tick removes the PendingDeletion of c in this step (lines 585-589)
TickCancels(p, c) ==
  TickStep(p) /\ deletePendingRecords[c] # None /\ deletePendingRecords'[c] = None

\* a tick arms a PendingDeletion for c in this step (lines 594-598)
TickArms(p, c) ==
  TickStep(p) /\ deletePendingRecords[c] = None /\ deletePendingRecords'[c] # None

\* every entry of managedRecords owned by c is still there, unchanged
KeepsRecordsOf(c) ==
  \A i \in 1..Len(managedRecords) :
    managedRecords[i].containerId = c =>
      \E j \in 1..Len(managedRecords') : managedRecords'[j] = managedRecords[i]

\* C4: from the cancellation of the PendingDeletion of c by a tick until a
\* PendingDeletion armed later fires, no deleteRecord is issued for c and no
\* record of c leaves managedRecords
C4_CancelStopsDeletion ==
  [][\A c \in Containers :
       (cancelled[c] # "none" /\ cancelled'[c] # "none") =>
         /\ \A t \in TimerIds : DeleteIssued(t) => timers'[t].cid # c
         /\ KeepsRecordsOf(c)]_vars

\* a step of a tick that repeats, undisturbed, the listing of the tick before
RepeatStep(p) ==
  /\ TickStep(p)
  /\ \/ ticks[p].pc = "list" /\ Alone(p) /\ last.snap = running
     \/ ticks[p].pc # "list" /\ ticks[p].second /\ ticks[p].solo

\* C6: the second of two back-to-back ticks with the same listing calls
\* neither createCNAME nor deleteRecord, arms no timer and leaves both Maps
\* unchanged
C6_SecondTickNoOp ==
  [][\A p \in TickIds :
       RepeatStep(p) =>
         /\ ~CreateIssued(p)
         /\ \A t \in TimerIds : ~DeleteIssued(t)
         /\ timers' = timers
         /\ managedRecords' = managedRecords
         /\ deletePendingRecords' = deletePendingRecords]_vars

\* the container owned a record when the tick before returned
OwnedBefore(p, c) ==
  c \in (IF ticks[p].pc = "list" THEN last.owners ELSE ticks[p].owners)

\* C6 amended: the second tick calls no deleteRecord, arms and clears no timer
\* and leaves deletePendingRecords unchanged; it calls createCNAME only for
\* containers that owned no record when the first tick returned, and changes
\* no record of a container that owned one
C6_SecondTickRetriesOnly ==
  [][\A p \in TickIds :
       RepeatStep(p) =>
         /\ CreateIssued(p) => ~OwnedBefore(p, ticks'[p].idx)
         /\ \A t \in TimerIds : ~DeleteIssued(t)
         /\ timers' = timers
         /\ deletePendingRecords' = deletePendingRecords
         /\ \A c \in Containers :
              OwnedBefore(p, c) => RecordsOf(managedRecords', c) = RecordsOf(managedRecords, c)]_vars

\* C6 witness: the second of two undisturbed ticks with the same listing has
\* issued a createCNAME call
C6_SecondTickRetrying ==
  \E p \in TickIds : ticks[p].second /\ ticks[p].solo /\ ticks[p].pc = "create"

\* C7: for the labels of the README example every createCNAME call of a tick
\* is createCNAME("example.com", "app", target, 3600)
C7_ExampleCall ==
  \A p \in TickIds :
    (ticks[p].pc = "create" /\ LabelsOf(ticks[p].idx) = ExampleLabels) =>
      /\ ticks[p].call.domain = "example.com"
      /\ ticks[p].call.name = "app"
      /\ ticks[p].call.target = Target(AppHost)
      /\ ticks[p].call.ttl = 3600

\* C8: a tick that finds a PendingDeletion for a running container c removes
\* it and clears its timer, has called no createCNAME for c and leaves the
\* records of c unchanged
C8_CancelOnly ==
  [][\A p \in TickIds : \A c \in Containers :
       TickCancels(p, c) =>
         /\ LET t == deletePendingRecords[c]
            IN ~(timers'[t].st = "armed" /\ timers'[t].cid = c)
         /\ ~(ticks[p].pc = "create" /\ ticks[p].idx = c)
         /\ ~ticks[p].sawPending
         /\ RecordsOf(managedRecords', c) = RecordsOf(managedRecords, c)]_vars

\* the PendingDeletion of c is armed and not yet due
NotYetDue(c) ==
  /\ deletePendingRecords[c] # None
  /\ timers[deletePendingRecords[c]].st = "armed"
  /\ timers[deletePendingRecords[c]].remaining > 0

\* the tick step arms one timer for c, due after DeleteDelay, and deletes nothing
ArmsOnly(p, c) ==
  /\ timers'[deletePendingRecords'[c]] = ArmedTimer(c)
  /\ Cardinality({t \in TimerIds : timers'[t].st = "armed" /\ timers'[t].cid = c})
       = Cardinality(ArmedFor(c)) + 1
  /\ \A t \in TimerIds : ~DeleteIssued(t)
  /\ registrar \subseteq registrar'
  /\ KeepsRecordsOf(c)

\* C9: a tick that finds c stopped, with records and no PendingDeletion, arms
\* one timer due after DeleteDelay and deletes nothing; no deleteRecord is
\* issued for c while that PendingDeletion is not yet due
C9_ArmThenWait ==
  [][/\ \A p \in TickIds : \A c \in Containers : TickArms(p, c) => ArmsOnly(p, c)
     /\ \A t \in TimerIds :
          DeleteIssued(t) => ~NotYetDue(timers'[t].cid)]_vars

\* the callback of timer t gets the response of a deleteRecord call
DeleteResponse(t) == timers[t].st = "running" /\ timers'[t] # timers[t]

\* C10: in a deletion callback a failed deleteRecord leaves managedRecords
\* unchanged, a successful one removes the entry of its key and no other, and
\* the response to the last call removes the PendingDeletion entry
C10_CallbackOutcome ==
  [][\A t \in TimerIds :
       DeleteResponse(t) =>
         LET rec == Head(timers[t].todo)
         IN /\ registrar' = registrar => managedRecords' = managedRecords
            /\ registrar' # registrar =>
                 /\ KeyIndex(managedRecords', rec.key) = 0
                 /\ \A i \in 1..Len(managedRecords) :
                      managedRecords[i].key # rec.key =>
                        \E j \in 1..Len(managedRecords') : managedRecords'[j] = managedRecords[i]
            /\ Len(timers[t].todo) = 1 =>
                 /\ deletePendingRecords'[timers[t].cid] = None
                 /\ timers'[t].st = "free"]_vars

\* C10 witness: a callback is awaiting its last deleteRecord and an earlier
\* record of its container, whose deleteRecord failed, is still in managedRecords
C10_FailedRecordStays ==
  \E t \in TimerIds :
    /\ timers[t].st = "running"
    /\ Len(timers[t].todo) = 1
    /\ \E i, j \in 1..Len(managedRecords) :
         /\ i < j
         /\ managedRecords[i].containerId = timers[t].cid
         /\ managedRecords[j] = timers[t].todo[1]

\* ------------------------------------------------------------------------
\* POST /api/sync
\* ------------------------------------------------------------------------
\* C11: the response of POST /api/sync is an error when the listing of its
\* tick failed, and a success when the tick listed the containers, whatever
\* the outcome of its inspect and createCNAME calls
C11_SyncSurfacesListFailure ==
  response.status # 0 =>
    response.status = (IF response.listFailed THEN 500 ELSE 200)

\* ------------------------------------------------------------------------
\* Failures inside a tick
\* ------------------------------------------------------------------------
\* the hostnames of three or more labels among hosts, in order
ValidIndices(hosts) == {k \in 1..Len(hosts) : Len(Split(hosts[k], DOT)) >= 3}

\* tick p gets the response of container.inspect or createCNAMERecord
ItemResponse(p) == ticks[p].pc \in {"inspect", "create"} /\ ticks'[p] # ticks[p]

\* the position in the listing the tick is at after the step
NextIndex(p) == IF ticks'[p].pc = "idle" THEN NumContainers + 1 ELSE ticks'[p].idx

\* C12: whatever the outcome of a createCNAME or inspect call of a tick, the
\* tick goes on with the next valid hostname of the container; when it leaves
\* the container it has cancelled its PendingDeletion and skipped no running
\* unmanaged container; when it returns every stopped owner of a record has
\* a PendingDeletion; the step ends in the tick, never outside of it
C12_SiblingsNotBlocked ==
  [][\A p \in TickIds :
       ItemResponse(p) =>
         LET tk == ticks[p]
             valid == ValidIndices(tk.hosts)
         IN /\ ticks'[p].pc \in {"inspect", "create", "idle"}
            /\ (tk.pc = "create" /\ valid # {}) =>
                 /\ ticks'[p].pc = "create"
                 /\ ticks'[p].idx = tk.idx
                 /\ ticks'[p].call.host = tk.hosts[Min(valid)]
            /\ (ticks'[p].pc = "idle" \/ ticks'[p].idx # tk.idx) =>
                 /\ deletePendingRecords'[tk.idx] = None
                 /\ \A j \in Containers :
                      (tk.idx < j /\ j < NextIndex(p) /\ tk.snap[j]) =>
                        HasRecords(managedRecords', j)
            /\ ticks'[p].pc = "idle" =>
                 \A k \in 1..Len(managedRecords') :
                   ~tk.snap[managedRecords'[k].containerId] =>
                     deletePendingRecords'[managedRecords'[k].containerId] # None]_vars

\* C12 witness: a tick that listed two running containers awaits createCNAME
\* for the second one, after every call for the first one failed
C12_SecondContainerAttempted ==
  \E p \in TickIds :
    /\ ticks[p].pc = "create"
    /\ ticks[p].idx = 2
    /\ ticks[p].snap[1]
    /\ registrar = {}
    /\ managedRecords = <<>>

\* ------------------------------------------------------------------------
\* Life of a ManagedRecord
\* ------------------------------------------------------------------------
\* the entry of managedRecords under key, <<>> if there is none
EntryOf(mr, key) == IF KeyIndex(mr, key) = 0 THEN <<>> ELSE mr[KeyIndex(mr, key)]

RegistrarIds(reg) == {r.id : r \in reg}

\* a createCNAME call for key succeeds in this step, with record id
CreateSucceeds(key, id) ==
  /\ id \in RegistrarIds(registrar') \ RegistrarIds(registrar)
  /\ \E p \in TickIds :
       /\ ticks[p].pc = "create"
       /\ ticks'[p] # ticks[p]
       /\ key = RecordKey(ticks[p].idx, ticks[p].call.host)

\* a deleteRecord call for the record id succeeds in this step
DeleteSucceeds(id) ==
  /\ id \in RegistrarIds(registrar) \ RegistrarIds(registrar')
  /\ \E t \in TimerIds :
       /\ timers[t].st = "running"
       /\ timers'[t] # timers[t]
       /\ Head(timers[t].todo).recordId = id

AllKeys == {managedRecords[i].key : i \in 1..Len(managedRecords)}
             \cup {managedRecords'[i].key : i \in 1..Len(managedRecords')}

\* C13: an entry enters managedRecords, or gets another value, only in the
\* step in which a createCNAME call for its key succeeds, and leaves it only
\* in the step in which a deleteRecord call for the record id it holds succeeds
C13_InsertedAndRemovedByOwnCalls ==
  [][\A key \in AllKeys :
       LET old == EntryOf(managedRecords, key)
           new == EntryOf(managedRecords', key)
       IN /\ (new # <<>> /\ new # old) => CreateSucceeds(key, new.recordId)
          /\ (old # <<>> /\ new = <<>>) => DeleteSucceeds(old.recordId)]_vars

\* ------------------------------------------------------------------------
\* Progress
\* ------------------------------------------------------------------------
\* a step of the ticks: setInterval fires or an awaited call gets its response
TickProgress ==
  \/ IntervalTick
  \/ \E p \in TickIds :
       \/ ListReturn(p) \/ ListFail(p)
       \/ InspectReturn(p) \/ InspectFail(p)
       \/ CreateReturn(p) \/ CreateFail(p)

\* a step of the timers: time passes, a due timer fires or a deleteRecord
\* call gets its response
TimerProgress ==
  \/ Tock
  \/ \E t \in TimerIds : TimerFire(t) \/ DeleteReturn(t) \/ DeleteFail(t)

\* the ticks and the timers keep going, the listing succeeds again and again,
\* and so does a deleteRecord call for a record that exists
Fairness ==
  /\ WF_vars(TickProgress)
  /\ WF_vars(TimerProgress)
  /\ SF_vars(\E p \in TickIds : ListReturn(p))
  /\ SF_vars(\E t \in TimerIds : DeleteReturn(t))

\* one container, with two valid hostnames, under fair scheduling
SpecLive == InitOf("none", {{2}}, {""}) /\ [][Next]_vars /\ Fairness

\* the same when nobody calls POST /api/sync
SpecLiveScheduled == InitOf("none", {{2}}, {""}) /\ [][NextScheduled]_vars /\ Fairness

\* C14: when the only container of the docker host stops for good, in the end
\* managedRecords is empty and no record is left at the registrar
C14_StoppedContainerCleaned ==
  \A c \in Containers :
    (fleet = {c} /\ <>[](~running[c])) => <>[](managedRecords = <<>> /\ registrar = {})

\* C15: a deletion timer that expires while its container is running again
\* issues no deleteRecord call
C15_RestartCancelsDeletion ==
  [][\A t \in TimerIds :
       (timers[t].st = "armed" /\ DeleteIssued(t)) => ~running[timers[t].cid]]_vars

\* ------------------------------------------------------------------------
\* The Label Parser on its own: extractTraefikHosts applied to label maps
\* with one router rule of one or two Host clauses
\* ------------------------------------------------------------------------
ABHost == <<"a", DOT, "b", DOT, "com">>
XYHost == <<"x", DOT, "y", DOT, "com">>

\* the quoting styles of a Host clause
Styles == {"backtick", "double", "single", "bare"}

Quote(style) ==
  IF style = "backtick" THEN <<BT>>
  ELSE IF style = "double" THEN <<DQ>>
  ELSE IF style = "single" THEN <<SQ>>
  ELSE <<>>

ClauseText(cl) == <<HOST>> \o Quote(cl.style) \o cl.host \o Quote(cl.style) \o <<RP>>

Clauses == [style : Styles, host : {ABHost, XYHost}]

\* a rule is one clause, or two clauses combined with ||
ClauseSeqs == {<<c>> : c \in Clauses} \cup {<<c, d>> : c \in Clauses, d \in Clauses}

RuleText(cls) == Join([i \in 1..Len(cls) |-> ClauseText(cls[i])], " || ")

\* the value of traefik.enable, "" when the label is absent
EnableValues == {"", "true", "false", "True"}

LabelMap(enable, cls) ==
  (IF enable = "" THEN <<>> ELSE << <<EnableKey, <<enable>> >> >>)
    \o << <<RuleKey("app"), RuleText(cls)>> >>

\* the server is not started
ParserInit ==
  /\ observe = "none"
  /\ server = "boot"
  /\ config = [accountName |-> TRUE, apiKey |-> TRUE, targetDomain |-> ""]
  /\ fleet = {}
  /\ running = [c \in Containers |-> FALSE]
  /\ registrar = {}
  /\ managedRecords = <<>>
  /\ deletePendingRecords = [c \in Containers |-> None]
  /\ timers = [t \in TimerIds |-> FreeTimer]
  /\ ticks = [p \in TickIds |-> IdleTick]
  /\ created = [c \in Containers |-> {}]
  /\ cancelled = [c \in Containers |-> "none"]
  /\ last = NoLast
  /\ response = NoResponse
  /\ failed = [c \in Containers |-> "no"]
  /\ \E e \in EnableValues, cls \in ClauseSeqs :
       parser = [stage |-> "in", enable |-> e, clauses |-> cls,
                 labels |-> LabelMap(e, cls), hosts |-> <<>>, used |-> <<>>]

\* extractTraefikHosts(labels), and the hosts createDNSRecordsForContainer
\* goes on with (lines 457-462)
ParseLabels ==
  /\ parser.stage = "in"
  /\ parser' = [parser EXCEPT !.stage = "out",
                              !.hosts = extractTraefikHosts(parser.labels),
                              !.used = HostsForContainer(parser.labels)]
  /\ UNCHANGED <<server, config, fleet, running, registrar, managedRecords,
                 deletePendingRecords, timers, ticks, observe, created, cancelled,
                 last, response, failed>>

SpecParser == ParserInit /\ [][ParseLabels]_vars

Parsed == parser.stage = "out"

Range(seq) == {seq[i] : i \in 1..Len(seq)}

ReadmeStyles == {"backtick", "double", "bare"}

ReadmeForms == \A i \in 1..Len(parser.clauses) : parser.clauses[i].style \in ReadmeStyles

\* C17: no hostname returned by extractTraefikHosts begins or ends with a
\* backtick or a double quote, for each of the three forms of a Host clause
C17_QuotesStripped ==
  (Parsed /\ ReadmeForms) =>
    \A h \in Range(parser.hosts) :
      h # <<>> => (Head(h) \notin {BT, DQ} /\ h[Len(h)] \notin {BT, DQ})

\* C18: for each of the three quoting styles, extractTraefikHosts applied to
\* an enabled label map whose rule is one Host clause naming a.b.com returns
\* a sequence that contains a.b.com
C18_EveryStyleAccepted ==
  \A s \in ReadmeStyles :
    (Parsed /\ parser.enable = "true" /\ parser.clauses = <<[style |-> s, host |-> ABHost]>>)
      => ABHost \in Range(parser.hosts)

\* C18 witness: the double-quoted rule of an enabled map has been parsed and
\* a.b.com is among the hosts
C18_DoubleQuotedAccepted ==
  /\ Parsed
  /\ parser.enable = "true"
  /\ parser.clauses = <<[style |-> "double", host |-> ABHost]>>
  /\ ABHost \in Range(parser.hosts)

\* C19: for a rule of two Host clauses extractTraefikHosts returns both
\* hostnames and nothing else, each of them once; a single hostname when the
\* two clauses name the same one, whatever their quoting styles
C19_BothHostsOnce ==
  (Parsed /\ ReadmeForms /\ Len(parser.clauses) = 2) =>
    LET named == {parser.clauses[1].host, parser.clauses[2].host}
    IN  /\ Range(parser.hosts) = named
        /\ Len(parser.hosts) = Cardinality(named)

\* the positions of the dots of a hostname
DotsOf(h) == {i \in 1..Len(h) : h[i] = DOT}

\* the position of the dot before the last two labels of a hostname of three
\* or more labels
SplitDot(h) == CHOOSE i \in DotsOf(h) : Cardinality({j \in DotsOf(h) : j > i}) = 1

\* C20: a createCNAME call is issued only for a hostname of three or more
\* labels, with domain = its last two labels and name = all leading labels
\* (app.example.com gives app and example.com); for the two-label hostname
\* example.com no call is issued and no ManagedRecord is inserted
C20_SplitOrSkip ==
  /\ \A p \in TickIds :
       ticks[p].pc = "create" =>
         LET h == ticks[p].call.host
         IN  /\ Cardinality(DotsOf(h)) >= 2
             /\ ticks[p].call.domain = Str(SubSeq(h, SplitDot(h) + 1, Len(h)))
             /\ ticks[p].call.name = Str(SubSeq(h, 1, SplitDot(h) - 1))
             /\ h = AppHost =>
                  (ticks[p].call.domain = "example.com" /\ ticks[p].call.name = "app")
  /\ \A i \in 1..Len(managedRecords) : managedRecords[i].hostname # Str(ApexHost)

\* C20 witness: a tick is in the createCNAME call for app.example.com of the
\* container whose rule names example.com first
C20_ApexSkipped ==
  \E p \in TickIds :
    /\ ticks[p].pc = "create"
    /\ LabelsOf(ticks[p].idx) = BareLabels
    /\ ticks[p].call.host = AppHost
    /\ ticks[p].call.name = "app"
    /\ ticks[p].call.domain = "example.com"

\* ------------------------------------------------------------------------
\* The Label Parser on arbitrary rule texts, well formed or not
\* ------------------------------------------------------------------------
MaxRuleLen == 4

\* what a rule text is made of: Host( ` " ) and a hostname character
RuleAlphabet == {HOST, BT, DQ, RP, "a"}

RuleTexts == UNION {[1..n -> RuleAlphabet] : n \in 0..MaxRuleLen}

\* a label key that is not a Traefik router rule
OtherKey == <<"com", DOT, "example", DOT, "rule">>

\* the empty map, and enabled maps with one more label
AnyLabelMaps ==
  {<<>>} \cup
  {<< <<EnableKey, <<"true">> >>, <<k, v>> >> : k \in {RuleKey("app"), OtherKey}, v \in RuleTexts}

\* the server is not started
ServerOff ==
  /\ observe = "none"
  /\ server = "boot"
  /\ config = [accountName |-> TRUE, apiKey |-> TRUE, targetDomain |-> ""]
  /\ fleet = {}
  /\ running = [c \in Containers |-> FALSE]
  /\ registrar = {}
  /\ managedRecords = <<>>
  /\ deletePendingRecords = [c \in Containers |-> None]
  /\ timers = [t \in TimerIds |-> FreeTimer]
  /\ ticks = [p \in TickIds |-> IdleTick]
  /\ created = [c \in Containers |-> {}]
  /\ cancelled = [c \in Containers |-> "none"]
  /\ last = NoLast
  /\ response = NoResponse
  /\ failed = [c \in Containers |-> "no"]

ParserAnyInit ==
  /\ ServerOff
  /\ \E l \in AnyLabelMaps :
       parser = [stage |-> "in", enable |-> IF l = <<>> THEN "" ELSE "true",
                 clauses |-> <<>>, labels |-> l, hosts |-> <<>>, used |-> <<>>]

SpecParserAny == ParserAnyInit /\ [][ParseLabels]_vars

\* h is made of hostname characters only
CleanToken(h) == h # <<>> /\ \A i \in 1..Len(h) : h[i] \notin {HOST, BT, DQ, SQ, RP}

\* the labels hold a router rule with a complete clause Host(h), Host(<bt>h<bt>)
\* or Host("h")
DeclaredIn(labels, h) ==
  \E i \in 1..Len(labels) : \E q \in {<<>>, <<BT>>, <<DQ>>} :
    /\ labels[i][1] = RuleKey("app")
    /\ Includes(labels[i][2], <<HOST>> \o q \o h \o q \o <<RP>>)

\* C21: for every label map (the empty map, maps without Traefik rule labels,
\* rules with unbalanced parentheses or quotes, an empty Host()) the Label
\* Parser returns a sequence, and every hostname in it is the non-empty,
\* quote-free token of a complete Host clause of a router rule: a malformed
\* rule contributes no empty or partial token
C21_NoTokenFromMalformedRule ==
  Parsed => \A h \in Range(parser.hosts) : CleanToken(h) /\ DeclaredIn(parser.labels, h)

\* ------------------------------------------------------------------------
\* Progress when the registrar may leave a call without a response
\* ------------------------------------------------------------------------
\* a step the server takes with docker on its local socket or on its own:
\* setInterval fires, listContainers or inspect gets its response
LocalProgress ==
  \/ IntervalTick
  \/ \E p \in TickIds :
       \/ ListReturn(p) \/ ListFail(p)
       \/ InspectReturn(p) \/ InspectFail(p)

\* time passes and a due timer fires
ClockProgress == Tock \/ \E t \in TimerIds : TimerFire(t)

\* lines 353-366 and 379-386: axios.post and axios.delete are called without
\* a timeout, so nothing but the registrar's response ends such a call
FairnessLocal == WF_vars(LocalProgress) /\ WF_vars(ClockProgress)

\* one container, nobody calls POST /api/sync, the registrar free to stay silent
SpecSilent == InitOf("none", {{2}}, {""}) /\ [][NextScheduled]_vars /\ FairnessLocal

\* C22: every started tick eventually completes and every deletion callback
\* that has fired eventually ends (and removes its PendingDeletion entry), also
\* when a createCNAME or deleteRecord call never receives a response
C22_CallsTimeOut ==
  /\ \A p \in TickIds : (ticks[p].pc # "idle") ~> (ticks[p].pc = "idle")
  /\ \A t \in TimerIds : (timers[t].st = "running") ~> (timers[t].st = "free")

\* C23: when the account name or the API key is missing, no tick ever begins,
\* no registrar record appears and the interval is never started; with both
\* present the first step of the server begins the initial tick, the interval
\* is started only by the return of the initial tick, and a scheduled tick
\* begins afterwards only once the interval is started
C23_CredentialsGateTicks ==
  [][/\ (~config.accountName \/ ~config.apiKey) =>
          /\ ticks' = ticks
          /\ registrar' = registrar
          /\ server' \in {"boot", "exited"}
     /\ (config.accountName /\ config.apiKey /\ server = "boot" /\ server' # "boot") =>
          /\ server' = "initialSync"
          /\ ticks'["sched"].pc = "list"
     /\ (server # "polling" /\ server' = "polling") =>
          /\ server = "initialSync"
          /\ ticks["sched"].pc # "idle"
          /\ ticks'["sched"].pc = "idle"
     /\ (server # "boot" /\ ticks["sched"].pc = "idle" /\ ticks'["sched"].pc = "list") =>
          server = "polling"]_vars

\* C23 witness: only the API key is missing and the process has exited with
\* no tick begun
C23_ExitedWithoutKey ==
  /\ config.accountName
  /\ ~config.apiKey
  /\ server = "exited"
  /\ \A p \in TickIds : ticks[p] = IdleTick

\* C24: a PendingDeletion entry exists for a container only while that
\* container owns at least one ManagedRecord, so every container is Unmanaged,
\* Managed or Managed+PendingDelete
C24_PendingOnlyWithRecords ==
  \A c \in Containers :
    deletePendingRecords[c] # None => \E i \in 1..Len(managedRecords) : managedRecords[i].containerId = c

\* C25: once a deleteRecord call of the callback of a stopped container C has
\* failed, no tick arms a new PendingDeletion for C while C stays stopped
\* (so the record whose deletion failed would stay in the table)
C25_NoRearmAfterFailure == \A c \in Containers : failed[c] # "rearmed"

\* C25 amended: a tick that returns having listed C as not running, while C
\* owns a record after a failed deleteRecord call, leaves a PendingDeletion
\* for C: when the callback has removed the entry the tick arms a new timer
C25_FailedDeletionRearmed == \A c \in Containers : failed[c] # "dropped"

\* C25 witness: C is stopped, a deleteRecord call for its record failed, the
\* record is still in the table and a tick has armed a new timer for C
C25_RearmedAfterFailure ==
  \E c \in Containers :
    /\ failed[c] = "rearmed"
    /\ ~running[c]
    /\ c \in Owners(managedRecords)
    /\ deletePendingRecords[c] # None
    /\ timers[deletePendingRecords[c]].st = "armed"

\* tick p starts createDNSRecordsForContainer for a container in this step
InspectIssued(p) ==
  /\ ticks'[p].pc = "inspect"
  /\ (ticks[p].pc # "inspect" \/ ticks'[p].idx # ticks[p].idx)

\* C26: a tick starts on the hostnames of a running container only when the
\* container owns no ManagedRecord at the moment it is examined, and every
\* createCNAME call of the tick is for the container so examined; a container
\* passed over as owning a record gets no call, whatever its hostnames
C26_CreateOnlyForUnmanaged ==
  [][\A p \in TickIds :
       /\ InspectIssued(p) => ticks'[p].idx \notin Owners(managedRecords)
       /\ CreateIssued(p) =>
            /\ ticks[p].pc \in {"inspect", "create"}
            /\ ticks'[p].idx = ticks[p].idx
       /\ \A c \in ticks'[p].skipped \ ticks[p].skipped : c \in Owners(managedRecords)
       /\ CreateIssued(p) => ticks'[p].idx \notin ticks'[p].skipped]_vars

\* C26 witness: a tick has passed over running container 1, which owns one
\* record and none for app.example.com, and has gone on to the next container
C26_ManagedContainerSkipped ==
  \E p \in TickIds :
    /\ ticks[p].pc = "inspect"
    /\ 1 \in ticks[p].skipped
    /\ running[1]
    /\ Cardinality({i \in 1..Len(managedRecords) : managedRecords[i].containerId = 1}) = 1
    /\ \A i \in 1..Len(managedRecords) : managedRecords[i].hostname # Str(AppHost)

\* the createCNAME call of tick p succeeds in this step
CreateSucceeded(p) ==
  /\ ticks[p].pc = "create"
  /\ ticks'[p] # ticks[p]
  /\ registrar' \ registrar # {}

\* C27: hostnames are not deduplicated across containers: every ManagedRecord
\* is stored under the key of its own (container, hostname) pair with a
\* registrar record id no other entry has, and a successful createCNAME for a
\* hostname of container c inserts the entry of (c, hostname) and leaves the
\* entries of the other containers in the table, also one for the same hostname
C27_NoDedupAcrossContainers ==
  [][/\ \A i \in 1..Len(managedRecords') :
          managedRecords'[i].key = <<managedRecords'[i].containerId, managedRecords'[i].hostname>>
     /\ \A i, j \in 1..Len(managedRecords') :
          i # j => /\ managedRecords'[i].key # managedRecords'[j].key
                   /\ managedRecords'[i].recordId # managedRecords'[j].recordId
     /\ \A p \in TickIds :
          CreateSucceeded(p) =>
            /\ \E i \in 1..Len(managedRecords') :
                 /\ managedRecords'[i].key = <<ticks[p].idx, Str(ticks[p].call.host)>>
                 /\ managedRecords'[i].recordId \notin ManagedIds
            /\ \A j \in 1..Len(managedRecords) :
                 managedRecords[j].containerId # ticks[p].idx =>
                   \E k \in 1..Len(managedRecords') : managedRecords'[k] = managedRecords[j]]_vars

\* C27 witness: both containers run, each owns a record for app.example.com,
\* with different registrar record ids, and the registrar holds both records
C27_SameHostTwoRecords ==
  /\ running[1] /\ running[2]
  /\ \E i, j \in 1..Len(managedRecords) :
       /\ managedRecords[i].key = <<1, "app.example.com">>
       /\ managedRecords[j].key = <<2, "app.example.com">>
       /\ managedRecords[i].recordId # managedRecords[j].recordId
       /\ \E r, q \in registrar :
            /\ r.id = managedRecords[i].recordId /\ q.id = managedRecords[j].recordId
            /\ r.name = "app" /\ q.name = "app"
            /\ r.domain = "example.com" /\ q.domain = "example.com"

C29_NoArmedTimerAfterRunningTick ==
  [][\A p \in TickIds : \A c \in Containers :
       (HasListed(p) /\ ticks'[p].pc = "idle" /\ ticks[p].snap[c]) =>
         \A t \in TimerIds : ~(timers'[t].st = "armed" /\ timers'[t].cid = c)]_vars

\* ------------------------------------------------------------------------
\* Progress when every call that is retried succeeds in the end
\* ------------------------------------------------------------------------
\* the server starts, the ticks and the timers keep going; the listing, the inspect and the
\* createCNAME call succeed again and again when they are made again and again
FairnessRetry ==
  /\ WF_vars(StartServer \/ TickProgress)
  /\ WF_vars(TimerProgress)
  /\ SF_vars(\E p \in TickIds : ListReturn(p))
  /\ SF_vars(\E p \in TickIds : InspectReturn(p))
  /\ SF_vars(\E p \in TickIds : CreateReturn(p))

\* one container, with two valid hostnames, nobody calls POST /api/sync
SpecLiveRetry == InitOf("none", {{2}}, {""}) /\ [][NextScheduled]_vars /\ FairnessRetry

HasKey(c, hostname) ==
  \E i \in 1..Len(managedRecords) : managedRecords[i].key = <<c, hostname>>

\* C30: when the credentials are set and the container with the hostnames
\* app.example.com and www.example.com keeps running, a ManagedRecord
\* eventually exists for each of the two hostnames, also when the record of one
\* of them was created in an earlier tick
C30_EveryHostEventuallyManaged ==
  (config.accountName /\ config.apiKey /\ <>[]running[2]) =>
    /\ <>HasKey(2, "app.example.com")
    /\ <>HasKey(2, "www.example.com")

\* the entries of mr owned by container d
OwnedBy(mr, d) == {mr[i] : i \in {j \in 1..Len(mr) : mr[j].containerId = d}}

\* the callback of timer t starts with a deleteRecord call, or gets the
\* response of one
CallbackStep(t) ==
  \/ timers[t].st = "armed" /\ timers'[t].st = "running"
  \/ DeleteResponse(t)

\* C31: the callback of the timer of container C issues deleteRecord only for
\* records owned by C, removes from the registrar only the record of the call
\* answered, and leaves the ManagedRecords and the PendingDeletion entry of
\* every other container unchanged
C31_CallbackTouchesOwnContainer ==
  [][\A t \in TimerIds :
       /\ DeleteIssued(t) => Head(timers'[t].todo).containerId = timers[t].cid
       /\ CallbackStep(t) =>
            /\ \A d \in Containers \ {timers[t].cid} :
                 /\ OwnedBy(managedRecords', d) = OwnedBy(managedRecords, d)
                 /\ deletePendingRecords'[d] = deletePendingRecords[d]
            /\ \A r \in registrar \ registrar' :
                 /\ timers[t].st = "running"
                 /\ r.id = Head(timers[t].todo).recordId
                 /\ Head(timers[t].todo).containerId = timers[t].cid]_vars

\* C31 witness: the callback of container 1 is awaiting deleteRecord for a
\* record of container 1 while container 2 owns a record and has its own
\* PendingDeletion armed
C31_OtherContainerPending ==
  \E t \in TimerIds :
    /\ timers[t].st = "running"
    /\ timers[t].cid = 1
    /\ Head(timers[t].todo).containerId = 1
    /\ OwnedBy(managedRecords, 2) # {}
    /\ deletePendingRecords[2] \notin {None, t}
    /\ timers[deletePendingRecords[2]].st = "armed"

\* C32: every armed timer (set, not fired, not cleared) is the timer that
\* deletePendingRecords holds under its container id
C32_NoUntrackedTimer ==
  \A t \in TimerIds :
    timers[t].st = "armed" => deletePendingRecords[timers[t].cid] = t

====
